---------------------------- MODULE Spec2Model ----------------------------
(***************************************************************************)
(* Model of the portfolio chatbot's query pipeline and of its retrieval    *)
(* reranker.                                                               *)
(*                                                                         *)
(*   - ChatbotUI.stream_response (main.py) drives one query of a session:  *)
(*     it validates the prompt, appends the user turn, consumes the events *)
(*     of AgentRunner.process_query and appends the final answer.          *)
(*   - AgentRunner.process_query (src/agent_runner.py) sequences the       *)
(*     orchestrator, the professional-info agent and the final             *)
(*     presentation agent and yields their events.                         *)
(*   - retrieve_and_rerank (src/tools/retrieval.py) is the two-stage       *)
(*     retrieval: similarity search, cross-encoder scores, threshold       *)
(*     filter, descending sort.                                            *)
(*                                                                         *)
(* The completion service, the agent framework, the similarity search and  *)
(* the cross-encoder are external: each call to them is a nondeterministic *)
(* choice among the results it can deliver (a value or an exception).      *)
(* An action runs the code from one suspension point (an await on an       *)
(* external call) to the next, the consumer's handling of every event      *)
(* yielded in between included.  The tracing arguments (session id, trace  *)
(* id, spans) carry no pipeline state and are left out.                    *)
(***************************************************************************)
EXTENDS Integers, Sequences, FiniteSets, TLC

(***************************************************************************)
(* Bounds of the model.                                                    *)
(***************************************************************************)
MaxQueries == 2      \* queries submitted in one session
MaxRequests == 2     \* downstream requests in one routing decision
MaxStream == 4       \* events delivered by one presentation stream
MaxCandidates == 3   \* passages returned by one similarity search
MaxToolCalls == 2    \* tool invocations made during one evidence run

None == "None"

(***************************************************************************)
(* Text is a sequence of characters.                                       *)
(***************************************************************************)
Whitespace == {" ", "\t"}

RECURSIVE lstrip(_)
lstrip(s) ==
    IF s # <<>> /\ Head(s) \in Whitespace THEN lstrip(Tail(s)) ELSE s

RECURSIVE rstrip(_)
rstrip(s) ==
    IF s # <<>> /\ s[Len(s)] \in Whitespace
    THEN rstrip(SubSeq(s, 1, Len(s) - 1))
    ELSE s

\* str.strip()
strip(s) == rstrip(lstrip(s))

\* variant: only the empty prompt is blank
IsBlankNoStrip(p) == p = <<>>

\* main.py:57, "not prompt or not prompt.strip()"
IsBlank(p) == p = <<>> \/ strip(p) = <<>>

Prompts == { <<>>, <<" ">>, <<"\t", " ">>, <<" ", "q">> }

\* main.py:58, the canned reply to a blank prompt (one token of text)
PleaseEnter == << "Please enter a question." >>

\* main.py:67-73, the placeholder shown until the answer streams in: one of
\* four fixed texts, overwritten (line 77) before anything reads it
thinking_message == << "Let me think about that..." >>

(***************************************************************************)
(* schemas.py: the routing decision and the events.                        *)
(***************************************************************************)
PROFESSIONAL_INFO == "professional_info"
PUBLIC_PERSONA == "public_persona"
FINAL_PRESENTATION == "final_presentation"
ORCHESTRATOR == "orchestrator"

DownstreamAgent == { PROFESSIONAL_INFO, PUBLIC_PERSONA, FINAL_PRESENTATION }

RECURSIVE SeqsUpTo(_, _)
SeqsUpTo(S, n) ==
    IF n = 0 THEN { <<>> }
    ELSE LET shorter == SeqsUpTo(S, n - 1)
         IN  shorter \cup { Append(q, x) : q \in shorter, x \in S }

\* a request list: any targets, the i-th request carrying the task text i
DownstreamRequests ==
    { [ i \in 1..Len(ags) |-> [ agent |-> ags[i], task |-> i ] ] :
        ags \in SeqsUpTo(DownstreamAgent, MaxRequests) }

OrchestratorRoute ==
    [ downstream_requests : DownstreamRequests, refusal_needed : BOOLEAN ]

\* the evidence bundles the professional-info agent can return
EvidenceBundle == { "bundle1", "bundle2" }

\* BaseModel.model_dump_json: an injective rendering of a structured value
model_dump_json(x) == [ json |-> x ]

Event(src, out) == [ from_ |-> src, output |-> out ]

Turn(r, c) == [ role |-> r, content |-> c ]

\* the text fragments a stream can carry
Deltas == { <<"a">>, <<"b">> }

RECURSIVE Concat(_)
Concat(ss) == IF ss = <<>> THEN <<>> ELSE Head(ss) \o Concat(Tail(ss))

RECURSIVE FromSource(_, _)
FromSource(s, kind) ==
    IF s = <<>> THEN <<>>
    ELSE IF Head(s).from_ = kind
         THEN <<Head(s)>> \o FromSource(Tail(s), kind)
         ELSE FromSource(Tail(s), kind)

VARIABLES
    pc,                 \* where the session's handler is suspended
    n_queries,          \* queries submitted so far
    prompt,             \* stream_response: the prompt of the current query
    chatbot,            \* the chat history shown by the UI
    conversation,       \* the transcript handed to the agents
    final_response,     \* stream_response: the answer accumulated so far
    orchestrator_output,\* process_query: the routing decision
    req_i,              \* process_query: index of the request being served
    evidence_bundle,    \* process_query: the bundle carried to presentation
    events,             \* events yielded by process_query for this query
    updates,            \* updates yielded by stream_response for this query
    calls,              \* agent invocations made for this query
    returned,           \* bundles returned by the evidence agent, in order
    fragments,          \* fragments yielded by FinalPresentationAgent.run
    streamed,           \* stream events delivered by the completion service
    stream_end,         \* how the presentation stream ended
    outcome,            \* how the last query ended
    failure,            \* the agent whose failure ended the query
    route_replies,      \* completion results consumed by the orchestrator
    textbox,            \* whether the input box is interactive
    conv_at_start,      \* the transcript when the current query was submitted
    routing_inputs,     \* the transcript as each orchestrator call received it
    presentation_inputs,\* the prompt built for each presentation call
    abandoned,          \* whether the caller abandoned the current query
    rr_pc,              \* retrieve_and_rerank: where the call stands
    retrieved_results,  \* retrieve_and_rerank: the similarity search's passages
    reranker_scores,    \* retrieve_and_rerank: the cross-encoder's scores
    ranked_docs,        \* retrieve_and_rerank: the filtered, sorted candidates
    rr_result,          \* retrieve_and_rerank: the texts returned
    rr_search,          \* retrieve_and_rerank: how the similarity search ended
    predict_calls,      \* retrieve_and_rerank: calls made to reranker.predict
    deps_trace_id,      \* the trace_id attribute of the shared RetrievalDeps
    run_pc,             \* ProfessionalInfoAgent.run: where each session's run stands
    tool_log            \* the tool invocations of each session's current run

pipeline_vars ==
    << pc, n_queries, prompt, chatbot, conversation, final_response,
       orchestrator_output, req_i, evidence_bundle, events, updates, calls,
       returned, fragments, streamed, stream_end, outcome, failure,
       route_replies, textbox, conv_at_start, routing_inputs,
       presentation_inputs, abandoned >>

rr_vars ==
    << rr_pc, retrieved_results, reranker_scores, ranked_docs, rr_result,
       rr_search, predict_calls >>

ev_vars == << deps_trace_id, run_pc, tool_log >>

vars == << pipeline_vars, rr_vars, ev_vars >>

\* the sessions whose pipelines run on the one event loop
Sessions == { "A", "B" }

\* process_query's orchestrator_output before the routing call has returned
Unbound == [ downstream_requests |-> <<>>, refusal_needed |-> FALSE ]

\* main.py:152-167, the chatbot starts with the welcome message
intro == << "Welcome" >>

Init ==
    /\ pc = "idle"
    /\ n_queries = 0
    /\ prompt = <<>>
    /\ chatbot = << Turn("assistant", intro) >>
    /\ conversation = <<>>
    /\ final_response = <<>>
    /\ orchestrator_output = Unbound
    /\ req_i = 0
    /\ evidence_bundle = None
    /\ events = <<>>
    /\ updates = <<>>
    /\ calls = <<>>
    /\ returned = <<>>
    /\ fragments = <<>>
    /\ streamed = <<>>
    /\ stream_end = "none"
    /\ outcome = "none"
    /\ failure = "none"
    /\ route_replies = <<>>
    /\ textbox = TRUE
    /\ conv_at_start = <<>>
    /\ routing_inputs = <<>>
    /\ presentation_inputs = <<>>
    /\ abandoned = FALSE
    /\ rr_pc = "idle"
    /\ retrieved_results = <<>>
    /\ reranker_scores = <<>>
    /\ ranked_docs = <<>>
    /\ rr_result = <<>>
    /\ rr_search = "none"
    /\ predict_calls = 0
    /\ deps_trace_id = "unset"
    /\ run_pc = [ s \in Sessions |-> "idle" ]
    /\ tool_log = [ s \in Sessions |-> <<>> ]

(***************************************************************************)
(* One update yielded by stream_response to the UI: the textbox component  *)
(* ("interactive", "locked" or "skip") and, when the chatbot is among the  *)
(* outputs, the content of its last message.                               *)
(***************************************************************************)
Update(tb, shows, last) == [ textbox |-> tb, shows_chat |-> shows, last |-> last ]

Call(a, i, b) == [ agent |-> a, req |-> i, bundle |-> b ]

\* chatbot[-1]["content"] = c
SetLast(chat, c) == [ chat EXCEPT ![Len(chat)].content = c ]

(***************************************************************************)
(* process_query, lines 86-97: the index of the next request after i that  *)
(* targets the professional-info agent, 0 when there is none.  A request   *)
(* for PUBLIC_PERSONA only prints; any other target is skipped.            *)
(***************************************************************************)
\* variant: the last matching request is taken, not the next one
NextEvidenceLast(reqs, i) ==
    LET later == { j \in (i + 1)..Len(reqs) : reqs[j].agent = PROFESSIONAL_INFO }
    IN  IF later = {} THEN 0
        ELSE CHOOSE j \in later : \A k \in later : j >= k

\* variant: a request for another agent ends the dispatch loop
NextEvidenceStopsAtOther(reqs, i) ==
    IF i < Len(reqs) /\ reqs[i + 1].agent = PROFESSIONAL_INFO THEN i + 1 ELSE 0

NextEvidence(reqs, i) ==
    LET later == { j \in (i + 1)..Len(reqs) : reqs[j].agent = PROFESSIONAL_INFO }
    IN  IF later = {} THEN 0
        ELSE CHOOSE j \in later : \A k \in later : j <= k

(***************************************************************************)
(* EvidenceBundle fields read by the presentation agent.  bundle1 leaves   *)
(* the optional fields unset, bundle2 sets them.                           *)
(***************************************************************************)
project_leads(b) == IF b = "bundle2" THEN << "p1", "p2" >> ELSE <<>>

safe_redirect_if_missing(b) == IF b = "bundle2" THEN << "redirect" >> ELSE <<>>

\* ", ".join(xs)
RECURSIVE Join(_)
Join(xs) ==
    IF xs = <<>> THEN <<>>
    ELSE IF Len(xs) = 1 THEN << xs[1] >>
    ELSE << xs[1], ", " >> \o Join(Tail(xs))

\* the literal written for a field that has no value
NoneMarker == << "none" >>

(***************************************************************************)
(* FinalPresentationAgent._format_input, lines 92-115: the prompt, as the  *)
(* sequence of its labelled lines.  Without a bundle the four evidence     *)
(* lines carry "none"; the task line is appended only when the decision    *)
(* has requests, and carries the task of the last one.                     *)
(***************************************************************************)
Line(label, value) == << label, value >>

\* lines 112-113
TaskDirective(route) ==
    LET reqs == route.downstream_requests
    IN  IF reqs # <<>>
        THEN << Line("Task directive", reqs[Len(reqs)].task) >>
        ELSE <<>>

\* variant: the bundle's fields are read without the test of line 92
FormatInputUnguarded(user_query, bundle, route) ==
    << Line("Original user query", user_query),
       Line("Coverage assessment", << "coverage_assessment", bundle >>),
       Line("Claims", << "claims", bundle >>),
       Line("Relevant projects", Join(project_leads(bundle))),
       Line("Safe redirect",
            IF safe_redirect_if_missing(bundle) # <<>>
            THEN safe_redirect_if_missing(bundle) ELSE NoneMarker),
       Line("Refusal directive",
            model_dump_json([ needed |-> route.refusal_needed ])) >>
    \o TaskDirective(route)

\* variant: without a bundle the evidence lines are left out
FormatInputOmitsAbsent(user_query, bundle, route) ==
    << Line("Original user query", user_query) >>
    \o (IF bundle # None
        THEN << Line("Coverage assessment", << "coverage_assessment", bundle >>),
                Line("Claims", << "claims", bundle >>),
                Line("Relevant projects", Join(project_leads(bundle))),
                Line("Safe redirect",
                     IF safe_redirect_if_missing(bundle) # <<>>
                     THEN safe_redirect_if_missing(bundle) ELSE NoneMarker) >>
        ELSE <<>>)
    \o << Line("Refusal directive",
               model_dump_json([ needed |-> route.refusal_needed ])) >>
    \o TaskDirective(route)

_format_input(user_query, bundle, route) ==
    LET coverage == IF bundle # None
                    THEN << "coverage_assessment", bundle >> ELSE NoneMarker
        claims == IF bundle # None THEN << "claims", bundle >> ELSE NoneMarker
        projects == IF bundle # None
                    THEN Join(project_leads(bundle)) ELSE NoneMarker
        redirect == IF bundle # None /\ safe_redirect_if_missing(bundle) # <<>>
                    THEN safe_redirect_if_missing(bundle) ELSE NoneMarker
    IN  << Line("Original user query", user_query),
           Line("Coverage assessment", coverage),
           Line("Claims", claims),
           Line("Relevant projects", projects),
           Line("Safe redirect", redirect),
           Line("Refusal directive",
                model_dump_json([ needed |-> route.refusal_needed ])) >>
        \o TaskDirective(route)

(***************************************************************************)
(* process_query resumes after request i (0: after the ORCHESTRATOR event) *)
(* and runs to its next await: the next evidence run, or the presentation  *)
(* stream opened with the bundle carried forward.                          *)
(***************************************************************************)
\* variant: the first bundle returned is kept, later ones are dropped
ResumeLoopFirstBundle(route, i, bundle, cs) ==
    LET j == NextEvidence(route.downstream_requests, i)
        kept == IF returned = <<>> THEN bundle ELSE returned[1]
    IN  IF j > 0
        THEN /\ pc' = "evidence"
             /\ req_i' = j
             /\ calls' = Append(cs, Call(PROFESSIONAL_INFO, j, None))
             /\ UNCHANGED presentation_inputs
        ELSE /\ pc' = "presenting"
             /\ req_i' = Len(route.downstream_requests) + 1
             /\ calls' = Append(cs, Call(FINAL_PRESENTATION, 0, kept))
             /\ presentation_inputs' =
                    Append(presentation_inputs, _format_input(prompt, kept, route))

\* variant: a decision that asks for a refusal has its requests dropped
ResumeLoopRefusalSkipsDispatch(route, i, bundle, cs) ==
    LET j == IF route.refusal_needed
             THEN 0 ELSE NextEvidence(route.downstream_requests, i)
    IN  IF j > 0
        THEN /\ pc' = "evidence"
             /\ req_i' = j
             /\ calls' = Append(cs, Call(PROFESSIONAL_INFO, j, None))
             /\ UNCHANGED presentation_inputs
        ELSE /\ pc' = "presenting"
             /\ req_i' = Len(route.downstream_requests) + 1
             /\ calls' = Append(cs, Call(FINAL_PRESENTATION, 0, bundle))
             /\ presentation_inputs' =
                    Append(presentation_inputs, _format_input(prompt, bundle, route))

ResumeLoop(route, i, bundle, cs) ==
    LET j == NextEvidence(route.downstream_requests, i)
    IN  IF j > 0
        THEN /\ pc' = "evidence"
             /\ req_i' = j
             /\ calls' = Append(cs, Call(PROFESSIONAL_INFO, j, None))
             /\ UNCHANGED presentation_inputs
        ELSE /\ pc' = "presenting"
             /\ req_i' = Len(route.downstream_requests) + 1
             /\ calls' = Append(cs, Call(FINAL_PRESENTATION, 0, bundle))
             /\ presentation_inputs' =
                    Append(presentation_inputs, _format_input(prompt, bundle, route))

(***************************************************************************)
(* stream_response, lines 57-60: a blank prompt.                           *)
(***************************************************************************)
BlankQuery(p) ==
    /\ pc = "idle"
    /\ IsBlank(p)
    /\ n_queries' = n_queries + 1
    /\ prompt' = p
    /\ chatbot' = Append(chatbot, Turn("assistant", PleaseEnter))
    /\ updates' = << Update("interactive", TRUE, PleaseEnter) >>
    /\ textbox' = TRUE
    /\ outcome' = "blank"
    /\ failure' = "none"
    /\ route_replies' = <<>>
    /\ conv_at_start' = conversation
    /\ events' = <<>>
    /\ calls' = <<>>
    /\ returned' = <<>>
    /\ fragments' = <<>>
    /\ streamed' = <<>>
    /\ stream_end' = "none"
    /\ routing_inputs' = <<>>
    /\ presentation_inputs' = <<>>
    /\ abandoned' = FALSE
    /\ UNCHANGED << pc, conversation, final_response, orchestrator_output,
                    req_i, evidence_bundle, rr_vars, ev_vars >>

\* variant: only the newest turn is sent to the completion service
ResponseInputLastTurn(conv) == << conv[Len(conv)] >>

\* orchestrator.py:62, the input of responses.parse: the conversation list
\* handed down by stream_response and process_query, every turn of it
ResponseInput(conv) == conv

(***************************************************************************)
(* stream_response, lines 62-80, and process_query up to the await of the  *)
(* orchestrator (line 81).                                                 *)
(***************************************************************************)
AcceptQuery(p) ==
    /\ pc = "idle"
    /\ ~IsBlank(p)
    /\ n_queries' = n_queries + 1
    /\ prompt' = p
    /\ chatbot' = SetLast(Append(Append(chatbot, Turn("user", p)),
                                 Turn("assistant", thinking_message)), <<>>)
    /\ updates' = << Update("locked", TRUE, p), Update("skip", TRUE, thinking_message) >>
    /\ textbox' = FALSE
    /\ conv_at_start' = conversation
    /\ conversation' = Append(conversation, Turn("user", p))
    /\ final_response' = <<>>
    /\ orchestrator_output' = Unbound
    /\ evidence_bundle' = None
    /\ req_i' = 0
    /\ events' = <<>>
    /\ calls' = << Call(ORCHESTRATOR, 0, None) >>
    /\ routing_inputs' = << ResponseInput(Append(conversation, Turn("user", p))) >>
    /\ presentation_inputs' = <<>>
    /\ abandoned' = FALSE
    /\ returned' = <<>>
    /\ fragments' = <<>>
    /\ streamed' = <<>>
    /\ stream_end' = "none"
    /\ outcome' = "running"
    /\ failure' = "none"
    /\ route_replies' = <<>>
    /\ pc' = "routing"
    /\ UNCHANGED << rr_vars, ev_vars >>

(***************************************************************************)
(* An exception leaves process_query and stream_response: nothing catches  *)
(* it, and the handler ends with an error.                                 *)
(***************************************************************************)
\* variant: the exception is swallowed and the pipeline goes on
RaiseContinues(agent) ==
    /\ pc' = "presenting"
    /\ outcome' = "running"
    /\ failure' = agent
    /\ UNCHANGED conversation

\* variant: the turns appended for the failed query are taken back
RaiseRollsBack(agent) ==
    /\ pc' = "idle"
    /\ outcome' = "error"
    /\ failure' = agent
    /\ conversation' = conv_at_start

Raise(agent) ==
    /\ pc' = "idle"
    /\ outcome' = "error"
    /\ failure' = agent
    /\ UNCHANGED conversation

(***************************************************************************)
(* The completion service's answer to responses.parse (orchestrator.py     *)
(* 59-65): the call raises because the result fails schema validation, or  *)
(* it returns with output_parsed empty, or with a parsed routing decision.  *)
(***************************************************************************)
RouteReplies(routes) ==
    { [ kind |-> k, parsed |-> Unbound ] : k \in { "raises", "empty" } }
    \cup { [ kind |-> "parsed", parsed |-> r ] : r \in routes }

\* variant: an empty result falls back to a decision without requests
OrchestratorRunFallback(resp) ==
    IF resp.kind = "raises" THEN [ raised |-> TRUE, value |-> Unbound ]
    ELSE [ raised |-> FALSE, value |-> resp.parsed ]

\* OrchestratorAgent.run, lines 59-74: what it does with the one reply
OrchestratorRun(resp) ==
    IF resp.kind = "raises" THEN [ raised |-> TRUE, value |-> Unbound ]
    ELSE IF resp.kind = "parsed" THEN [ raised |-> FALSE, value |-> resp.parsed ]
    ELSE [ raised |-> TRUE, value |-> Unbound ]

\* variant: the event is yielded again when the dispatch loop starts
YieldOrchestratorTwice(route) ==
    << Event(ORCHESTRATOR, model_dump_json(route)),
       Event(ORCHESTRATOR, model_dump_json(route)) >>

\* process_query, line 82: the events yielded for the routing decision
YieldOrchestrator(route) == << Event(ORCHESTRATOR, model_dump_json(route)) >>

(***************************************************************************)
(* The await of OrchestratorAgent.run ends (process_query line 81).  If it *)
(* raised, the exception leaves process_query before any yield.  If not,   *)
(* process_query yields the ORCHESTRATOR event (82), stream_response       *)
(* appends its payload to the transcript (main.py 83), and the dispatch    *)
(* loop starts (85-97).                                                    *)
(***************************************************************************)
Route(resp) ==
    /\ pc = "routing"
    /\ route_replies' = Append(route_replies, resp.kind)
    /\ LET r == OrchestratorRun(resp)
       IN  IF r.raised
           THEN /\ Raise(ORCHESTRATOR)
                /\ UNCHANGED << orchestrator_output, req_i,
                                evidence_bundle, events, calls,
                                presentation_inputs >>
           ELSE /\ orchestrator_output' = r.value
                /\ events' = events \o YieldOrchestrator(r.value)
                /\ conversation' = Append(conversation,
                       Turn("assistant", model_dump_json(r.value)))
                /\ evidence_bundle' = None
                /\ ResumeLoop(r.value, 0, None, calls)
                /\ UNCHANGED << outcome, failure >>
    /\ UNCHANGED << abandoned, n_queries, prompt, chatbot, final_response, updates,
                    returned, fragments, streamed, stream_end, textbox,
                    conv_at_start, routing_inputs, rr_vars, ev_vars >>

(***************************************************************************)
(* ProfessionalInfoAgent.run returns a bundle (process_query line 91); the *)
(* PROFESSIONAL_INFO event is yielded (94) and its payload appended to the *)
(* transcript (main.py 83); the loop goes on.                              *)
(***************************************************************************)
EvidenceReturn(b) ==
    /\ pc = "evidence"
    /\ evidence_bundle' = b
    /\ returned' = Append(returned, b)
    /\ events' = Append(events, Event(PROFESSIONAL_INFO, model_dump_json(b)))
    /\ conversation' =
           Append(conversation, Turn("assistant", model_dump_json(b)))
    /\ ResumeLoop(orchestrator_output, req_i, b, calls)
    /\ UNCHANGED << abandoned, n_queries, prompt, chatbot, final_response,
                    orchestrator_output, updates, fragments, streamed,
                    stream_end, outcome, failure, route_replies, textbox,
                    conv_at_start, routing_inputs, rr_vars, ev_vars >>

\* ProfessionalInfoAgent.run raises (malformed output, model or tool error)
EvidenceFail ==
    /\ pc = "evidence"
    /\ Raise(PROFESSIONAL_INFO)
    /\ UNCHANGED << abandoned, n_queries, prompt, chatbot, final_response,
                    orchestrator_output, req_i, evidence_bundle, events,
                    updates, calls, returned, fragments, streamed, stream_end,
                    route_replies, textbox, conv_at_start, routing_inputs,
                    presentation_inputs, rr_vars, ev_vars >>

(***************************************************************************)
(* The presentation stream.  The completion service delivers typed events; *)
(* other event types than the text delta may carry a delta of their own.   *)
(***************************************************************************)
DELTA == "response.output_text.delta"
COMPLETED == "response.completed"
REFUSAL_DELTA == "response.refusal.delta"

StreamEvents ==
    { [ type |-> DELTA, delta |-> d ] : d \in Deltas }
    \cup { [ type |-> COMPLETED, delta |-> <<>> ],
           [ type |-> REFUSAL_DELTA, delta |-> <<"r">> ] }

\* variant: every event that carries a delta yields it
RunYieldsAnyDelta(ev) == IF ev.delta # <<>> THEN << ev.delta >> ELSE <<>>

\* FinalPresentationAgent.run, lines 71-72: the fragments yielded for one event
RunYields(ev) == IF ev.type = DELTA THEN << ev.delta >> ELSE <<>>

\* variant: the loop goes on until the stream is exhausted
RunNeverBreaks(ev) == FALSE

\* FinalPresentationAgent.run, lines 73-74: the event that ends the loop
RunBreaks(ev) == ev.type = COMPLETED

\* variant: the answer accumulated so far is relayed after the fragment
RelayAccumulated(frs) ==
    [ i \in 1..(2 * Len(frs)) |->
        Event(FINAL_PRESENTATION, frs[(i + 1) \div 2]) ]

\* process_query, lines 101-103: one PRESENTATION event per fragment
Relay(frs) == [ i \in 1..Len(frs) |-> Event(FINAL_PRESENTATION, frs[i]) ]

RECURSIVE Outputs(_)
Outputs(evs) ==
    IF evs = <<>> THEN <<>> ELSE << Head(evs).output >> \o Outputs(Tail(evs))

(***************************************************************************)
(* stream_response, lines 89-97, once process_query is exhausted: the      *)
(* answer is appended to the transcript and the input re-enabled.          *)
(***************************************************************************)
\* variant: the answer is appended once more with the final update
FinishAppendsTwice(answer, ups) ==
    /\ conversation' = Append(Append(conversation, Turn("assistant", answer)),
                              Turn("assistant", answer))
    /\ updates' = Append(ups, Update("interactive", FALSE, <<>>))
    /\ textbox' = TRUE
    /\ outcome' = "answered"
    /\ pc' = "idle"

\* variant: the transcript is rebuilt from the latest exchange
FinishRebuildsTranscript(answer, ups) ==
    /\ conversation' = << Turn("user", prompt), Turn("assistant", answer) >>
    /\ updates' = Append(ups, Update("interactive", FALSE, <<>>))
    /\ textbox' = TRUE
    /\ outcome' = "answered"
    /\ pc' = "idle"

Finish(answer, ups) ==
    /\ conversation' = Append(conversation, Turn("assistant", answer))
    /\ updates' = Append(ups, Update("interactive", FALSE, <<>>))
    /\ textbox' = TRUE
    /\ outcome' = "answered"
    /\ pc' = "idle"

(***************************************************************************)
(* The stream delivers one event to FinalPresentationAgent.run (70-74).    *)
(***************************************************************************)
StreamDeliver(ev) ==
    /\ pc = "presenting"
    /\ Len(streamed) < MaxStream
    /\ streamed' = Append(streamed, ev)
    /\ fragments' = fragments \o RunYields(ev)
    /\ events' = events \o Relay(RunYields(ev))
    /\ LET evs == Relay(RunYields(ev))
           text == Concat(Outputs(evs))
           last == chatbot[Len(chatbot)].content
           ups == updates \o [ k \in 1..Len(evs) |->
                      Update("skip", TRUE,
                             last \o Concat(Outputs(SubSeq(evs, 1, k)))) ]
       IN  /\ final_response' = final_response \o text
           /\ chatbot' = SetLast(chatbot, last \o text)
           /\ IF RunBreaks(ev)
              THEN /\ stream_end' = "completed"
                   /\ Finish(final_response \o text, ups)
              ELSE /\ updates' = ups
                   /\ UNCHANGED << stream_end, conversation, textbox,
                                   outcome, pc >>
    /\ UNCHANGED << abandoned, n_queries, prompt, orchestrator_output, req_i,
                    evidence_bundle, calls, returned, failure, route_replies,
                    conv_at_start, routing_inputs, presentation_inputs,
                    rr_vars, ev_vars >>

(***************************************************************************)
(* The stream is exhausted without a completion event: the "async for" of  *)
(* FinalPresentationAgent.run ends and the generator returns.              *)
(***************************************************************************)
StreamExhausted ==
    /\ pc = "presenting"
    /\ stream_end' = "exhausted"
    /\ Finish(final_response, updates)
    /\ UNCHANGED << abandoned, n_queries, prompt, chatbot, final_response,
                    orchestrator_output, req_i, evidence_bundle, events,
                    calls, returned, fragments, streamed, failure,
                    route_replies, conv_at_start, routing_inputs,
                    presentation_inputs, rr_vars, ev_vars >>

\* the streaming call raises (the request or the connection fails)
StreamError ==
    /\ pc = "presenting"
    /\ stream_end' = "error"
    /\ Raise(FINAL_PRESENTATION)
    /\ UNCHANGED << abandoned, n_queries, prompt, chatbot, final_response,
                    orchestrator_output, req_i, evidence_bundle, events,
                    updates, calls, returned, fragments, streamed,
                    route_replies, textbox, conv_at_start, routing_inputs,
                    presentation_inputs, rr_vars, ev_vars >>

(***************************************************************************)
(* The caller abandons the query while the handler is suspended: in the    *)
(* routing call, in an evidence run, or in the presentation stream between *)
(* two fragments.  The cancellation is raised at the suspension point;     *)
(* neither process_query (agent_runner.py 77-104) nor stream_response      *)
(* (main.py 54-99) has a handler or a finally clause, so both are left at  *)
(* once and nothing after the suspension point runs.                       *)
(***************************************************************************)
\* variant: the cancelled call counts as a call that returned nothing
AbandonAsEmptyResult == Finish(final_response, updates)

Abandon ==
    /\ pc' = "idle"
    /\ outcome' = "cancelled"
    /\ UNCHANGED << conversation, updates, textbox >>

Cancel ==
    /\ pc \in { "routing", "evidence", "presenting" }
    /\ abandoned' = TRUE
    /\ Abandon
    /\ UNCHANGED << n_queries, prompt, chatbot, final_response,
                    orchestrator_output, req_i, evidence_bundle, events,
                    calls, returned, fragments, streamed, stream_end, failure,
                    route_replies, conv_at_start, routing_inputs,
                    presentation_inputs, rr_vars, ev_vars >>

(***************************************************************************)
(* The steps of a session that submits at most maxq queries, the external  *)
(* services answering from the given sets.                                 *)
(***************************************************************************)
Step(maxq, routes, bundles, sevents) ==
    \/ \E p \in Prompts : n_queries < maxq /\ BlankQuery(p)
    \/ \E p \in Prompts : n_queries < maxq /\ AcceptQuery(p)
    \/ \E resp \in RouteReplies(routes) : Route(resp)
    \/ \E b \in bundles : EvidenceReturn(b)
    \/ EvidenceFail
    \/ \E ev \in sevents : StreamDeliver(ev)
    \/ StreamExhausted
    \/ StreamError

(***************************************************************************)
(* Spec: the first query of a session, with every routing decision, every  *)
(* bundle and every stream the bounds allow.                               *)
(***************************************************************************)
Next == Step(1, OrchestratorRoute, EvidenceBundle, StreamEvents)

Spec == Init /\ [][Next]_vars

(***************************************************************************)
(* SpecAbandon: the first query of a session, which the caller may abandon *)
(* at any suspension point.                                                *)
(***************************************************************************)
NextAbandon ==
    \/ Step(1, OrchestratorRoute, EvidenceBundle, StreamEvents)
    \/ Cancel

SpecAbandon == Init /\ [][NextAbandon]_vars

(***************************************************************************)
(* SpecSession: a session of up to MaxQueries queries (blank, answered or  *)
(* failed, in any order), the services answering from smaller sets.        *)
(***************************************************************************)
SessionRoutes ==
    { r \in OrchestratorRoute :
        ~r.refusal_needed /\ Len(r.downstream_requests) <= 1 }

SessionStreamEvents ==
    { ev \in StreamEvents : ev.type = COMPLETED \/ ev.delta = <<"a">> }

NextSession ==
    Step(MaxQueries, SessionRoutes, { "bundle1" }, SessionStreamEvents)

SpecSession == Init /\ [][NextSession]_vars

(***************************************************************************)
(* retrieve_and_rerank (src/tools/retrieval.py).  A candidate is the text  *)
(* of a passage with its score; pos, the passage's place in the list the   *)
(* similarity search returned, is kept beside it for observation only.     *)
(***************************************************************************)
PageContents == { "doc A", "doc B" }
Scores == -1..2

\* RetrievalConfig.reranker_threshold (0.0)
reranker_threshold == 0

\* zip(retrieved_results, reranker_scores), lines 52-53
Zip(docs, scores) ==
    LET n == IF Len(docs) <= Len(scores) THEN Len(docs) ELSE Len(scores)
    IN  [ i \in 1..n |-> [ text |-> docs[i], score |-> scores[i], pos |-> i ] ]

\* variant: a score equal to the threshold passes
AtLeastThreshold(c) == c.score >= reranker_threshold

\* the condition of the comprehension, line 54
AboveThreshold(c) == c.score > reranker_threshold

\* variant: a passage whose text was already kept is dropped
RECURSIVE FilterDistinctTexts(_)
FilterDistinctTexts(cs) ==
    IF cs = <<>> THEN <<>>
    ELSE LET x == cs[Len(cs)]
             kept == FilterDistinctTexts(SubSeq(cs, 1, Len(cs) - 1))
         IN  IF AboveThreshold(x) /\ \A k \in 1..Len(kept) : kept[k].text # x.text
             THEN Append(kept, x)
             ELSE kept

RECURSIVE Filter(_)
Filter(cs) ==
    IF cs = <<>> THEN <<>>
    ELSE IF AboveThreshold(Head(cs))
         THEN << Head(cs) >> \o Filter(Tail(cs))
         ELSE Filter(Tail(cs))

\* variant: ascending order
GoesBeforeAscending(c, x) == c.score <= x.score

\* variant: a later element overtakes the elements of equal score
GoesBeforeStrict(c, x) == c.score > x.score

(***************************************************************************)
(* list.sort(key=score, reverse=True), line 56: a stable sort, descending  *)
(* by score; an element goes behind every element whose score is at least  *)
(* its own.                                                                *)
(***************************************************************************)
GoesBefore(c, x) == c.score >= x.score

RECURSIVE InsertDesc(_, _)
InsertDesc(s, x) ==
    IF s = <<>> THEN << x >>
    ELSE IF GoesBefore(Head(s), x)
         THEN << Head(s) >> \o InsertDesc(Tail(s), x)
         ELSE << x >> \o s

RECURSIVE SortDesc(_)
SortDesc(s) ==
    IF s = <<>> THEN <<>>
    ELSE InsertDesc(SortDesc(SubSeq(s, 1, Len(s) - 1)), s[Len(s)])

\* lines 50-56
RankedDocs(docs, scores) == SortDesc(Filter(Zip(docs, scores)))

\* line 59
Texts(ranked) == [ i \in 1..Len(ranked) |-> ranked[i].text ]

\* a tool calls retrieve_and_rerank, which awaits the similarity search (40)
RetrieveCall ==
    /\ rr_pc \in { "idle", "done", "failed" }
    /\ rr_pc' = "searching"
    /\ retrieved_results' = <<>>
    /\ reranker_scores' = <<>>
    /\ ranked_docs' = <<>>
    /\ rr_result' = <<>>
    /\ rr_search' = "none"
    /\ predict_calls' = 0
    /\ UNCHANGED << pipeline_vars, ev_vars >>

(***************************************************************************)
(* The similarity search returns docs; the cross-encoder scores each pair  *)
(* (one score per passage, line 48); the candidates are filtered, sorted   *)
(* and their texts returned (51-59).                                       *)
(***************************************************************************)
SearchReturn(docs, scores) ==
    /\ rr_pc = "searching"
    /\ Len(scores) = Len(docs)
    /\ retrieved_results' = docs
    /\ reranker_scores' = scores
    /\ ranked_docs' = RankedDocs(docs, scores)
    /\ rr_result' = Texts(RankedDocs(docs, scores))
    /\ rr_pc' = "done"
    /\ rr_search' = "returned"
    /\ predict_calls' = predict_calls + 1
    /\ UNCHANGED << pipeline_vars, ev_vars >>

\* variant: a failed search is treated as a search with no result
OnSearchErrorEmpty == "done"

\* line 40 has no handler: the exception of ainvoke leaves the function
OnSearchError == "failed"

\* the similarity search raises
SearchFail ==
    /\ rr_pc = "searching"
    /\ rr_pc' = OnSearchError
    /\ rr_search' = "raised"
    /\ UNCHANGED << retrieved_results, reranker_scores, ranked_docs,
                    rr_result, predict_calls, pipeline_vars, ev_vars >>

NextRerank ==
    \/ RetrieveCall
    \/ \E docs \in SeqsUpTo(PageContents, MaxCandidates),
          scores \in SeqsUpTo(Scores, MaxCandidates) :
            SearchReturn(docs, scores)
    \/ SearchFail

SpecRerank == Init /\ [][NextRerank]_vars

(***************************************************************************)
(* ProfessionalInfoAgent.run and the tools it registers                    *)
(* (src/agents/professional_info.py).  One AgentRunner serves every        *)
(* session, and it hands the one RetrievalDeps object it built at start-up *)
(* (agent_runner.py 43, 92) to every run.  The pipelines of the sessions   *)
(* interleave at their awaits.  Each run is given the trace id of its own  *)
(* query.                                                                  *)
(***************************************************************************)
TraceId(s) == << "trace", s >>

\* the tools: a document read, the GitHub lister, the project retrieval
Tools == { "read_resume", "fetch_github_repos", "retrieve" }

ToolCall(t, seen, ok) == [ tool |-> t, trace_id |-> seen, raised |-> ~ok ]

\* run, lines 54-62: the trace id is stored on deps, then agent.run is awaited
RunStart(s) ==
    /\ run_pc[s] # "running"
    /\ deps_trace_id' = TraceId(s)
    /\ run_pc' = [ run_pc EXCEPT ![s] = "running" ]
    /\ tool_log' = [ tool_log EXCEPT ![s] = <<>> ]
    /\ UNCHANGED << pipeline_vars, rr_vars >>

(***************************************************************************)
(* What a tool's outcome does to the run.  No tool has an exception        *)
(* handler (lines 88-268), fetch_project_repos raises (github_repos.py 25, *)
(* 39) and so does retrieve_and_rerank: the exception leaves the tool      *)
(* function and, not being a retry request of the agent framework, leaves  *)
(* agent.run and run.                                                      *)
(***************************************************************************)
ToolOutcome(ok) == IF ok THEN "running" ELSE "raised"

(***************************************************************************)
(* The model invokes a tool during session s's run: the tool reads         *)
(* context.deps.trace_id (lines 104, 128, 154, 187, 208, 259) and does its *)
(* work, which succeeds or raises.                                         *)
(***************************************************************************)
ToolInvoke(s, t, ok) ==
    /\ run_pc[s] = "running"
    /\ Len(tool_log[s]) < MaxToolCalls
    /\ tool_log' = [ tool_log EXCEPT ![s] = Append(@, ToolCall(t, deps_trace_id, ok)) ]
    /\ run_pc' = [ run_pc EXCEPT ![s] = ToolOutcome(ok) ]
    /\ UNCHANGED << deps_trace_id, pipeline_vars, rr_vars >>

\* run, lines 62-70: agent.run returns and the bundle is returned
RunReturn(s) ==
    /\ run_pc[s] = "running"
    /\ run_pc' = [ run_pc EXCEPT ![s] = "returned" ]
    /\ UNCHANGED << deps_trace_id, tool_log, pipeline_vars, rr_vars >>

NextEvidenceRuns ==
    \/ \E s \in Sessions : RunStart(s)
    \/ \E s \in Sessions, t \in Tools, ok \in BOOLEAN : ToolInvoke(s, t, ok)
    \/ \E s \in Sessions : RunReturn(s)

SpecEvidenceRuns == Init /\ [][NextEvidenceRuns]_vars

(***************************************************************************)
(* Observations shared by the properties below.                            *)
(***************************************************************************)
\* the events of one source, in emission order
EventsFrom(src) == FromSource(events, src)

\* the invocations of one agent made for the current query, in order
RECURSIVE CallsTo(_, _)
CallsTo(cs, a) ==
    IF cs = <<>> THEN <<>>
    ELSE IF Head(cs).agent = a
         THEN << Head(cs) >> \o CallsTo(Tail(cs), a)
         ELSE CallsTo(Tail(cs), a)

\* the text deltas among the stream events delivered, in delivery order
RECURSIVE TextDeltas(_)
TextDeltas(evs) ==
    IF evs = <<>> THEN <<>>
    ELSE IF Head(evs).type = DELTA
         THEN << Head(evs).delta >> \o TextDeltas(Tail(evs))
         ELSE TextDeltas(Tail(evs))

\* the indices of the requests of a decision that target the evidence agent
EvidenceRequests(route) ==
    { i \in 1..Len(route.downstream_requests) :
        route.downstream_requests[i].agent = PROFESSIONAL_INFO }

\* the n-th smallest element of a set of naturals
RECURSIVE Nth(_, _)
Nth(S, n) ==
    LET m == CHOOSE x \in S : \A y \in S : x <= y
    IN  IF n = 1 THEN m ELSE Nth(S \ { m }, n - 1)

WhitespaceOnly(p) == \A i \in 1..Len(p) : p[i] \in Whitespace

(***************************************************************************)
(* C1.  The events of a query are causally ordered: the ORCHESTRATOR event *)
(* is the first event, every EVIDENCE event comes before every             *)
(* PRESENTATION event, and the PRESENTATION events carry the fragments of  *)
(* the presentation stream in the order they were produced.                *)
(***************************************************************************)
C1_EventsCausallyOrdered ==
    /\ events # <<>> => events[1].from_ = ORCHESTRATOR
    /\ \A i, j \in 1..Len(events) :
          /\ (events[i].from_ = ORCHESTRATOR /\ events[j].from_ # ORCHESTRATOR)
                => i < j
          /\ (events[i].from_ = PROFESSIONAL_INFO
                /\ events[j].from_ = FINAL_PRESENTATION) => i < j
    /\ Outputs(EventsFrom(FINAL_PRESENTATION)) = fragments

C1_Witness ==
    /\ Len(EventsFrom(ORCHESTRATOR)) = 1
    /\ Len(EventsFrom(PROFESSIONAL_INFO)) = 2
    /\ Outputs(EventsFrom(FINAL_PRESENTATION)) = << <<"b">>, <<"a">> >>
    /\ outcome = "answered"

(***************************************************************************)
(* C2.  A blank or whitespace-only prompt invokes no agent, yields exactly *)
(* one update, which carries "Please enter a question.", ends the handler, *)
(* and leaves the transcript as it was.                                    *)
(***************************************************************************)
C2_BlankQueryShortCircuits ==
    (n_queries > 0 /\ WhitespaceOnly(prompt)) =>
        /\ pc = "idle"
        /\ outcome = "blank"
        /\ calls = <<>>
        /\ events = <<>>
        /\ fragments = <<>>
        /\ updates = << Update("interactive", TRUE, PleaseEnter) >>
        /\ chatbot[Len(chatbot)] = Turn("assistant", PleaseEnter)
        /\ conversation = conv_at_start

C2_Witness ==
    /\ n_queries = 2
    /\ prompt = << "\t", " " >>
    /\ outcome = "blank"
    /\ Len(conversation) = 3

(***************************************************************************)
(* C3.  retrieve_and_rerank returns the texts in non-increasing order of   *)
(* their reranker score, and every returned text is a candidate whose      *)
(* score is strictly greater than the threshold.                           *)
(***************************************************************************)
C3_DescendingAboveThreshold ==
    rr_pc = "done" =>
        /\ Len(rr_result) = Len(ranked_docs)
        /\ \A i \in 1..Len(ranked_docs) :
              /\ rr_result[i] = ranked_docs[i].text
              /\ ranked_docs[i].pos \in 1..Len(retrieved_results)
              /\ retrieved_results[ranked_docs[i].pos] = ranked_docs[i].text
              /\ reranker_scores[ranked_docs[i].pos] = ranked_docs[i].score
              /\ ranked_docs[i].score > reranker_threshold
        /\ \A i \in 1..(Len(ranked_docs) - 1) :
              ranked_docs[i].score >= ranked_docs[i + 1].score

C3_Witness ==
    /\ rr_pc = "done"
    /\ retrieved_results = << "doc A", "doc B", "doc A" >>
    /\ reranker_scores = << 1, 2, 0 >>
    /\ rr_result = << "doc B", "doc A" >>

(***************************************************************************)
(* C4.  Two returned candidates with equal reranker score keep the         *)
(* relative order they had in the similarity search's list.                *)
(***************************************************************************)
C4_StableTieBreak ==
    rr_pc = "done" =>
        \A i, j \in 1..Len(ranked_docs) :
            (i < j /\ ranked_docs[i].score = ranked_docs[j].score)
                => ranked_docs[i].pos < ranked_docs[j].pos

C4_Witness ==
    /\ rr_pc = "done"
    /\ retrieved_results = << "doc B", "doc A", "doc A" >>
    /\ reranker_scores = << 1, 2, 1 >>
    /\ rr_result = << "doc A", "doc B", "doc A" >>

(***************************************************************************)
(* C5.  When the similarity search returns no candidate, or every          *)
(* candidate scores at or below the threshold, retrieve_and_rerank ends    *)
(* normally and returns the empty list.                                    *)
(***************************************************************************)
NothingAboveThreshold ==
    \A i \in 1..Len(reranker_scores) : reranker_scores[i] <= reranker_threshold

C5_EmptyResultNotError ==
    /\ (rr_pc = "done" /\ NothingAboveThreshold) => rr_result = <<>>
    /\ rr_pc = "searching" =>
          \A docs \in SeqsUpTo(PageContents, MaxCandidates) :
              /\ ENABLED SearchReturn(docs, [ i \in 1..Len(docs) |-> 0 ])
              /\ ENABLED SearchReturn(docs, [ i \in 1..Len(docs) |-> -1 ])

C5_Witness ==
    /\ rr_pc = "done"
    /\ retrieved_results = << "doc A", "doc B" >>
    /\ reranker_scores = << 0, -1 >>
    /\ rr_result = <<>>

(***************************************************************************)
(* C6.  When routing fails (responses.parse raises on a result that fails  *)
(* schema validation, or the parsed result is empty), the orchestrator     *)
(* raises after that single completion call, and process_query emits no    *)
(* event at all: the query ends in an error with no answer, partial or     *)
(* complete.                                                               *)
(***************************************************************************)
RoutingFailed ==
    route_replies # <<>> /\ route_replies[1] \in { "raises", "empty" }

C6_RoutingFailureEmitsNothing ==
    /\ Len(route_replies) <= 1
    /\ RoutingFailed =>
          /\ failure = ORCHESTRATOR
          /\ outcome = "error"
          /\ pc = "idle"
          /\ events = <<>>
          /\ fragments = <<>>
          /\ final_response = <<>>
          /\ calls = << Call(ORCHESTRATOR, 0, None) >>
          /\ conversation = Append(conv_at_start, Turn("user", prompt))

C6_Witness ==
    /\ route_replies = << "raises" >>
    /\ outcome = "error"
    /\ events = <<>>

(***************************************************************************)
(* C7.  The pipeline is terminal on the first agent failure.  Every agent  *)
(* is invoked at most once per request.  After a routing failure no other  *)
(* agent is invoked; after an evidence failure the presentation agent is   *)
(* not invoked and no PRESENTATION event is emitted.  A failure ends the   *)
(* handler with an error: no final answer is appended to the transcript    *)
(* and no final update is yielded.                                         *)
(***************************************************************************)
NoAnswerTurn ==
    Len(conversation) =
        Len(conv_at_start) + 1 + Len(events)
            - Len(EventsFrom(FINAL_PRESENTATION))

C7_TerminalOnFirstFailure ==
    /\ Len(CallsTo(calls, ORCHESTRATOR)) <= 1
    /\ Len(CallsTo(calls, FINAL_PRESENTATION)) <= 1
    /\ \A i, j \in 1..Len(calls) :
          (i # j /\ calls[i].agent = PROFESSIONAL_INFO
                 /\ calls[j].agent = PROFESSIONAL_INFO)
              => calls[i].req # calls[j].req
    /\ failure = ORCHESTRATOR =>
          /\ CallsTo(calls, PROFESSIONAL_INFO) = <<>>
          /\ CallsTo(calls, FINAL_PRESENTATION) = <<>>
          /\ events = <<>>
    /\ failure = PROFESSIONAL_INFO =>
          /\ CallsTo(calls, FINAL_PRESENTATION) = <<>>
          /\ EventsFrom(FINAL_PRESENTATION) = <<>>
          /\ fragments = <<>>
          /\ streamed = <<>>
    /\ failure # "none" =>
          /\ pc = "idle"
          /\ outcome = "error"
          /\ NoAnswerTurn
          /\ updates[Len(updates)].textbox # "interactive"
          /\ ~textbox

C7_Witness ==
    /\ failure = PROFESSIONAL_INFO
    /\ Len(EventsFrom(PROFESSIONAL_INFO)) = 1
    /\ Len(CallsTo(calls, PROFESSIONAL_INFO)) = 2
    /\ outcome = "error"

(***************************************************************************)
(* C8.  A presentation stream that ends without response.completed is a    *)
(* truncation failure: the query does not end as answered, and the         *)
(* fragments received are not appended to the transcript as the answer.    *)
(***************************************************************************)
C8_TruncationIsFailure ==
    stream_end = "exhausted" => (outcome # "answered" /\ NoAnswerTurn)

(***************************************************************************)
(* C9.  For a stream that ends with the completion signal, the fragments   *)
(* yielded are exactly the text deltas, one per delta, in delivery order;  *)
(* process_query relays one PRESENTATION event per fragment in the same    *)
(* order; the concatenation of the payloads is the whole text, which is    *)
(* the answer shown and appended to the transcript.                        *)
(***************************************************************************)
C9_FragmentsAreTheDeltas ==
    stream_end = "completed" =>
        /\ streamed[Len(streamed)].type = COMPLETED
        /\ fragments = TextDeltas(streamed)
        /\ Outputs(EventsFrom(FINAL_PRESENTATION)) = TextDeltas(streamed)
        /\ Concat(Outputs(EventsFrom(FINAL_PRESENTATION)))
              = Concat(TextDeltas(streamed))
        /\ final_response = Concat(TextDeltas(streamed))
        /\ chatbot[Len(chatbot)].content = Concat(TextDeltas(streamed))
        /\ Len(updates) = 2 + Len(TextDeltas(streamed)) + 1

C9_Witness ==
    /\ stream_end = "completed"
    /\ Len(streamed) = 4
    /\ streamed[2].type = REFUSAL_DELTA
    /\ fragments = << <<"b">>, <<"a">> >>
    /\ outcome = "answered"

(***************************************************************************)
(* C10.  The requests targeting the evidence agent are served in list      *)
(* order, one invocation each; each invocation that returns is followed by *)
(* one EVIDENCE event carrying the serialized bundle it returned, emitted  *)
(* before the next request is dispatched; when the presentation starts,    *)
(* there are as many EVIDENCE events as EVIDENCE requests.                 *)
(***************************************************************************)
C10_OneEvidenceEventPerRequest ==
    LET evCalls == CallsTo(calls, PROFESSIONAL_INFO)
        evEvents == EventsFrom(PROFESSIONAL_INFO)
        evReqs == EvidenceRequests(orchestrator_output)
    IN  /\ Len(evCalls) <= Cardinality(evReqs)
        /\ \A n \in 1..Len(evCalls) : evCalls[n].req = Nth(evReqs, n)
        /\ Len(evEvents) = Len(returned)
        /\ \A n \in 1..Len(evEvents) :
              evEvents[n].output = model_dump_json(returned[n])
        /\ Len(evCalls) =
              Len(evEvents)
                + (IF pc = "evidence" \/ failure = PROFESSIONAL_INFO
                   THEN 1 ELSE 0)
        /\ CallsTo(calls, FINAL_PRESENTATION) # <<>> =>
              /\ Len(evEvents) = Cardinality(evReqs)
              /\ Len(evCalls) = Cardinality(evReqs)

C10_Witness ==
    /\ pc = "presenting"
    /\ Len(orchestrator_output.downstream_requests) = 2
    /\ Cardinality(EvidenceRequests(orchestrator_output)) = 2
    /\ returned = << "bundle2", "bundle1" >>
    /\ Len(EventsFrom(PROFESSIONAL_INFO)) = 2

(***************************************************************************)
(* C11.  The bundle handed to the presentation agent is the one returned   *)
(* by the last request served by the evidence agent; it is None exactly    *)
(* when the decision has no request for the evidence agent; a request for  *)
(* another agent placed after an evidence request leaves it as it was.     *)
(***************************************************************************)
C11_LastBundleCarriedForward ==
    \A n \in 1..Len(calls) :
        calls[n].agent = FINAL_PRESENTATION =>
            /\ calls[n].bundle = evidence_bundle
            /\ IF EvidenceRequests(orchestrator_output) = {}
               THEN calls[n].bundle = None /\ returned = <<>>
               ELSE /\ returned # <<>>
                    /\ calls[n].bundle = returned[Len(returned)]
                    /\ calls[n].bundle # None

C11_Witness ==
    /\ pc = "presenting"
    /\ Cardinality(EvidenceRequests(orchestrator_output)) = 2
    /\ returned = << "bundle1", "bundle2" >>
    /\ calls[Len(calls)] = Call(FINAL_PRESENTATION, 0, "bundle2")

(***************************************************************************)
(* C12.  When the routing call returned a decision, exactly one            *)
(* ORCHESTRATOR event has been emitted; it is the first event of the query *)
(* and carries the serialization of the decision bound to                  *)
(* orchestrator_output, the one the dispatch loop walks and the            *)
(* presentation prompt is built from.                                      *)
(***************************************************************************)
C12_OneOrchestratorEventFirst ==
    /\ route_replies = << "parsed" >> =>
          /\ Len(EventsFrom(ORCHESTRATOR)) = 1
          /\ events[1] = Event(ORCHESTRATOR, model_dump_json(orchestrator_output))
          /\ \A n \in 1..Len(calls) :
                calls[n].agent = PROFESSIONAL_INFO =>
                    calls[n].req \in EvidenceRequests(orchestrator_output)
          /\ \A n \in 1..Len(presentation_inputs) :
                presentation_inputs[n] =
                    _format_input(prompt, evidence_bundle, orchestrator_output)
    /\ route_replies # << "parsed" >> => EventsFrom(ORCHESTRATOR) = <<>>

C12_Witness ==
    /\ route_replies = << "parsed" >>
    /\ outcome = "answered"
    /\ orchestrator_output.refusal_needed
    /\ Len(orchestrator_output.downstream_requests) = 2
    /\ Len(events) = 4
    /\ events[1] = Event(ORCHESTRATOR, model_dump_json(orchestrator_output))
    /\ Len(presentation_inputs) = 1

(***************************************************************************)
(* C13.  A request that does not target the evidence agent is skipped      *)
(* without failing the query: no agent is invoked for it, the evidence     *)
(* requests around it are still served in list order, and the presentation *)
(* agent is still invoked.  The only failures are those of an invoked      *)
(* agent.                                                                  *)
(***************************************************************************)
C13_OtherTargetsAreSkipped ==
    LET reqs == orchestrator_output.downstream_requests
        evCalls == CallsTo(calls, PROFESSIONAL_INFO)
        evReqs == EvidenceRequests(orchestrator_output)
    IN  /\ \A n \in 1..Len(calls) :
              /\ calls[n].agent \in { ORCHESTRATOR, PROFESSIONAL_INFO,
                                      FINAL_PRESENTATION }
              /\ calls[n].agent = PROFESSIONAL_INFO =>
                    /\ calls[n].req \in 1..Len(reqs)
                    /\ reqs[calls[n].req].agent = PROFESSIONAL_INFO
        /\ \A n \in 1..Len(evCalls) : evCalls[n].req = Nth(evReqs, n)
        /\ failure = PROFESSIONAL_INFO =>
              calls[Len(calls)].agent = PROFESSIONAL_INFO
        /\ (route_replies = << "parsed" >> /\ pc # "evidence"
               /\ failure # PROFESSIONAL_INFO) =>
              /\ Len(evCalls) = Cardinality(evReqs)
              /\ Len(CallsTo(calls, FINAL_PRESENTATION)) = 1
              /\ calls[Len(calls)].agent = FINAL_PRESENTATION
        /\ (route_replies = << "parsed" >> /\ evReqs = {}) =>
              failure \in { "none", FINAL_PRESENTATION }

C13_Witness ==
    /\ outcome = "answered"
    /\ Len(orchestrator_output.downstream_requests) = 2
    /\ orchestrator_output.downstream_requests[1].agent = PUBLIC_PERSONA
    /\ orchestrator_output.downstream_requests[2].agent = PROFESSIONAL_INFO
    /\ calls = << Call(ORCHESTRATOR, 0, None), Call(PROFESSIONAL_INFO, 2, None),
                  Call(FINAL_PRESENTATION, 0, "bundle1") >>
    /\ fragments # <<>>

(***************************************************************************)
(* C14.  For a decision that asks for a refusal and has no request, the    *)
(* evidence agent is not invoked and no EVIDENCE event is emitted; the     *)
(* presentation agent is invoked once, with no bundle, and its prompt is   *)
(* complete: the query, "none" on each of the four evidence lines, the     *)
(* refusal directive, and no task line.  Only the stream itself can fail.  *)
(***************************************************************************)
RefusalWithoutRequests ==
    /\ route_replies = << "parsed" >>
    /\ orchestrator_output.refusal_needed
    /\ orchestrator_output.downstream_requests = <<>>

C14_RefusalPathReachesPresentation ==
    RefusalWithoutRequests =>
        /\ CallsTo(calls, PROFESSIONAL_INFO) = <<>>
        /\ EventsFrom(PROFESSIONAL_INFO) = <<>>
        /\ returned = <<>>
        /\ calls = << Call(ORCHESTRATOR, 0, None),
                      Call(FINAL_PRESENTATION, 0, None) >>
        /\ presentation_inputs =
              << << Line("Original user query", prompt),
                    Line("Coverage assessment", NoneMarker),
                    Line("Claims", NoneMarker),
                    Line("Relevant projects", NoneMarker),
                    Line("Safe redirect", NoneMarker),
                    Line("Refusal directive",
                         model_dump_json([ needed |-> TRUE ])) >> >>
        /\ failure \in { "none", FINAL_PRESENTATION }
        /\ failure = FINAL_PRESENTATION => stream_end = "error"

C14_Witness ==
    /\ RefusalWithoutRequests
    /\ outcome = "answered"
    /\ stream_end = "completed"
    /\ fragments = << <<"a">> >>
    /\ Len(presentation_inputs) = 1
    /\ events = << Event(ORCHESTRATOR, model_dump_json(orchestrator_output)),
                   Event(FINAL_PRESENTATION, <<"a">>) >>

(***************************************************************************)
(* C15.  When a query ends as answered, exactly one turn has been appended *)
(* to the transcript after the payloads of its structured events: an       *)
(* assistant turn whose content is the concatenation of the PRESENTATION   *)
(* payloads in emission order.  It is the last entry of the transcript.    *)
(* While the query is still running, and events can still be emitted, that *)
(* turn is not there; once it is there the handler has ended and emits     *)
(* nothing more.                                                           *)
(***************************************************************************)
C15_FinalAnswerAppendedLast ==
    /\ outcome = "answered" =>
          /\ pc = "idle"
          /\ Len(conversation) = Len(conv_at_start) + 1 + Len(events)
                                    - Len(EventsFrom(FINAL_PRESENTATION)) + 1
          /\ conversation[Len(conversation)] =
                Turn("assistant",
                     Concat(Outputs(EventsFrom(FINAL_PRESENTATION))))
          /\ conversation[Len(conversation)].content = final_response
          /\ events # <<>>
          /\ \A i \in 1..Len(events) :
                events[i].from_ = FINAL_PRESENTATION =>
                    \A j \in i..Len(events) : events[j].from_ = FINAL_PRESENTATION
    /\ outcome = "running" => NoAnswerTurn

C15_Witness ==
    /\ outcome = "answered"
    /\ Len(EventsFrom(PROFESSIONAL_INFO)) = 1
    /\ Outputs(EventsFrom(FINAL_PRESENTATION)) = << <<"b">>, <<"a">>, <<"b">> >>
    /\ conversation[Len(conversation)] = Turn("assistant", << "b", "a", "b" >>)
    /\ Len(conversation) = 4

(***************************************************************************)
(* C16.  The routing decision is appended to the transcript only when it   *)
(* contains a request for the evidence agent: for an answered query whose  *)
(* decision has no such request, the transcript holds nothing between the  *)
(* user turn and the final answer.                                         *)
(***************************************************************************)
C16_DecisionAppendedOnlyForEvidence ==
    (outcome = "answered" /\ EvidenceRequests(orchestrator_output) = {}) =>
        /\ Len(conversation) = Len(conv_at_start) + 2
        /\ conversation[Len(conversation) - 1] = Turn("user", prompt)

(***************************************************************************)
(* C17.  The transcript is append-only over a whole session: in every step *)
(* (a blank query, an accepted query, an event, a failure, the final       *)
(* answer) the transcript before the step is a prefix of the transcript    *)
(* after it.                                                               *)
(***************************************************************************)
IsPrefix(s, t) == Len(s) <= Len(t) /\ SubSeq(t, 1, Len(s)) = s

C17_TranscriptAppendOnly == [][IsPrefix(conversation, conversation')]_vars

C17_Witness ==
    /\ n_queries = 2
    /\ outcome = "answered"
    /\ conv_at_start = << Turn("user", << " ", "q" >>) >>
    /\ Len(conversation) = 5
    /\ IsPrefix(conv_at_start, conversation)
    /\ Len(EventsFrom(PROFESSIONAL_INFO)) = 1

(***************************************************************************)
(* C18.  For every non-blank query the orchestrator is invoked exactly     *)
(* once, before any other agent, and the transcript it receives is the     *)
(* whole transcript of the session as it stood at submission followed by   *)
(* the new user turn: it ends with that turn and holds no payload and no   *)
(* answer of the current query.                                            *)
(***************************************************************************)
C18_RoutingSeesTranscriptWithUserTurn ==
    outcome \in { "running", "answered", "error" } =>
        /\ Len(CallsTo(calls, ORCHESTRATOR)) = 1
        /\ calls[1].agent = ORCHESTRATOR
        /\ Len(routing_inputs) = 1
        /\ routing_inputs[1] = Append(conv_at_start, Turn("user", prompt))
        /\ IsPrefix(routing_inputs[1], conversation)
        /\ pc = "routing" => conversation = routing_inputs[1]

C18_Witness ==
    /\ n_queries = 2
    /\ outcome = "answered"
    /\ Len(conv_at_start) = 4
    /\ Len(routing_inputs[1]) = 5
    /\ routing_inputs[1][5] = Turn("user", prompt)
    /\ Len(conversation) = 8

(***************************************************************************)
(* C19.  The sessions share no state that a pipeline writes: the shared    *)
(* retrieval dependencies are not written by an evidence run, so every     *)
(* tool invocation of a session's run reads that session's own trace id.   *)
(***************************************************************************)
C19_ToolSeesOwnTraceId ==
    \A s \in Sessions :
        \A i \in 1..Len(tool_log[s]) : tool_log[s][i].trace_id = TraceId(s)

(***************************************************************************)
(* C20.  A tool invocation that fails does not fail the evidence run: its  *)
(* error is the tool's result, and the run goes on.                        *)
(***************************************************************************)
C20_ToolFailureIsAbsorbed ==
    \A s \in Sessions :
        \A i \in 1..Len(tool_log[s]) :
            tool_log[s][i].raised => run_pc[s] # "raised"

(***************************************************************************)
(* C21.  When the similarity search raises, retrieve_and_rerank raises:    *)
(* it does not return, with an empty list or any other, and the reranker   *)
(* has not been called.                                                    *)
(***************************************************************************)
C21_SearchFailurePropagates ==
    /\ rr_search = "raised" =>
          /\ rr_pc = "failed"
          /\ predict_calls = 0
          /\ reranker_scores = <<>>
          /\ ranked_docs = <<>>
          /\ rr_result = <<>>
    /\ rr_pc = "done" => (rr_search = "returned" /\ predict_calls = 1)

C21_Witness ==
    /\ rr_search = "raised"
    /\ rr_pc = "failed"
    /\ predict_calls = 0

(***************************************************************************)
(* C22.  A prompt built without a bundle has the four evidence lines, each *)
(* with the value "none".  Every prompt, with or without a bundle, has     *)
(* each of the labels "Coverage assessment", "Claims", "Relevant projects" *)
(* and "Safe redirect" exactly once, in that order, after the query line.  *)
(***************************************************************************)
EvidenceLabels ==
    << "Coverage assessment", "Claims", "Relevant projects", "Safe redirect" >>

C22_AbsentEvidenceRenderedAsNone ==
    \A n \in 1..Len(presentation_inputs) :
        LET p == presentation_inputs[n]
        IN  /\ Len(p) >= 6
            /\ p[1] = Line("Original user query", prompt)
            /\ \A k \in 1..4 : p[k + 1][1] = EvidenceLabels[k]
            /\ \A k \in 6..Len(p) : p[k][1] \notin { EvidenceLabels[j] : j \in 1..4 }
            /\ evidence_bundle = None =>
                  \A k \in 1..4 : p[k + 1] = Line(EvidenceLabels[k], NoneMarker)

C22_Witness ==
    /\ pc = "presenting"
    /\ evidence_bundle = None
    /\ ~orchestrator_output.refusal_needed
    /\ Len(orchestrator_output.downstream_requests) = 1
    /\ orchestrator_output.downstream_requests[1].agent = PUBLIC_PERSONA
    /\ Len(presentation_inputs) = 1
    /\ presentation_inputs[1][3] = Line("Claims", NoneMarker)
    /\ Len(presentation_inputs[1]) = 7

(***************************************************************************)
(* C23.  When the decision has a request for the evidence agent, the       *)
(* prompt ends with a task directive carrying the task of the evidence     *)
(* request whose bundle is carried forward (the last one served), whatever *)
(* other requests the list holds and wherever they stand.                  *)
(***************************************************************************)
C23_TaskDirectiveOfEvidenceRequest ==
    LET reqs == orchestrator_output.downstream_requests
        evReqs == EvidenceRequests(orchestrator_output)
    IN  \A n \in 1..Len(presentation_inputs) :
            evReqs # {} =>
                LET p == presentation_inputs[n]
                    last == CHOOSE i \in evReqs : \A j \in evReqs : i >= j
                IN  p[Len(p)] = Line("Task directive", reqs[last].task)

(***************************************************************************)
(* C24.  A query abandoned at a suspension point ends as cancelled, which  *)
(* is neither answered nor error: no agent failure is recorded, the        *)
(* handler has ended, so no later stage runs and no further event is       *)
(* emitted, no final-answer turn is appended to the transcript, and the    *)
(* stage that was in flight is the last one invoked.                       *)
(***************************************************************************)
C24_AbandonedQueryIsCancelled ==
    abandoned =>
        /\ outcome = "cancelled"
        /\ pc = "idle"
        /\ failure = "none"
        /\ stream_end = "none"
        /\ NoAnswerTurn
        /\ updates[Len(updates)].textbox # "interactive"
        /\ calls[Len(calls)].agent = ORCHESTRATOR =>
              (events = <<>> /\ Len(calls) = 1)
        /\ calls[Len(calls)].agent = PROFESSIONAL_INFO =>
              /\ CallsTo(calls, FINAL_PRESENTATION) = <<>>
              /\ EventsFrom(FINAL_PRESENTATION) = <<>>
              /\ Len(EventsFrom(PROFESSIONAL_INFO)) + 1
                    = Len(CallsTo(calls, PROFESSIONAL_INFO))

C24_Witness ==
    /\ abandoned
    /\ outcome = "cancelled"
    /\ calls[Len(calls)].agent = FINAL_PRESENTATION
    /\ fragments = << <<"a">>, <<"b">> >>
    /\ final_response = << "a", "b" >>
    /\ NoAnswerTurn
    /\ Len(conversation) = 2

(***************************************************************************)
(* C26.  The result of retrieve_and_rerank holds exactly the candidates    *)
(* whose score is strictly above the threshold: every such position of the *)
(* candidate list appears exactly once, two candidates with the same text  *)
(* are both kept, no position with a score at or below the threshold       *)
(* appears, and the result is not longer than the candidate list.          *)
(***************************************************************************)
PassingPositions ==
    { i \in 1..Len(retrieved_results) : reranker_scores[i] > reranker_threshold }

C26_ExactlyTheCandidatesAboveThreshold ==
    rr_pc = "done" =>
        /\ { ranked_docs[k].pos : k \in 1..Len(ranked_docs) } = PassingPositions
        /\ Len(ranked_docs) = Cardinality(PassingPositions)
        /\ Len(rr_result) = Cardinality(PassingPositions)
        /\ Len(rr_result) <= Len(retrieved_results)
        /\ \A t \in PageContents :
              Cardinality({ k \in 1..Len(rr_result) : rr_result[k] = t })
                = Cardinality({ i \in PassingPositions : retrieved_results[i] = t })

C26_Witness ==
    /\ rr_pc = "done"
    /\ retrieved_results = << "doc A", "doc A", "doc B" >>
    /\ reranker_scores = << 1, 2, 0 >>
    /\ rr_result = << "doc A", "doc A" >>

(***************************************************************************)
(* C27.  A decision that asks for a refusal and also has requests is       *)
(* handled like any other decision: its ORCHESTRATOR event is emitted, its *)
(* evidence requests are served in list order with one EVIDENCE event      *)
(* each, and the presentation agent is then invoked with the last bundle   *)
(* and the refusal directive.  The query fails only if an invoked agent    *)
(* fails.                                                                  *)
(***************************************************************************)
RefusalWithRequests ==
    /\ route_replies = << "parsed" >>
    /\ orchestrator_output.refusal_needed
    /\ orchestrator_output.downstream_requests # <<>>

C27_RefusalWithRequestsStillDispatched ==
    RefusalWithRequests =>
        LET evCalls == CallsTo(calls, PROFESSIONAL_INFO)
            evReqs == EvidenceRequests(orchestrator_output)
        IN  /\ events[1] = Event(ORCHESTRATOR, model_dump_json(orchestrator_output))
            /\ (evReqs # {} /\ pc = "evidence") => evCalls # <<>>
            /\ failure = PROFESSIONAL_INFO => evCalls # <<>>
            /\ failure \in { "none", PROFESSIONAL_INFO, FINAL_PRESENTATION }
            /\ (pc # "evidence" /\ failure # PROFESSIONAL_INFO) =>
                  /\ Len(evCalls) = Cardinality(evReqs)
                  /\ \A n \in 1..Len(evCalls) : evCalls[n].req = Nth(evReqs, n)
                  /\ Len(EventsFrom(PROFESSIONAL_INFO)) = Cardinality(evReqs)
                  /\ calls[Len(calls)] =
                        Call(FINAL_PRESENTATION, 0, evidence_bundle)
                  /\ Len(presentation_inputs) = 1
                  /\ presentation_inputs[1][6] =
                        Line("Refusal directive",
                             model_dump_json([ needed |-> TRUE ]))

C27_Witness ==
    /\ RefusalWithRequests
    /\ outcome = "answered"
    /\ Cardinality(EvidenceRequests(orchestrator_output)) = 2
    /\ Len(EventsFrom(PROFESSIONAL_INFO)) = 2
    /\ calls[Len(calls)] = Call(FINAL_PRESENTATION, 0, "bundle1")
    /\ fragments = << <<"a">> >>

(***************************************************************************)
(* C28.  After an agent failure the transcript is the transcript the query *)
(* started with, then the user turn, then one assistant turn per           *)
(* ORCHESTRATOR or EVIDENCE event emitted before the failure, carrying its *)
(* payload, in emission order: nothing is taken back, and no turn carries  *)
(* the answer, not even the text streamed before the failure.              *)
(***************************************************************************)
RECURSIVE StructuredPayloads(_)
StructuredPayloads(evs) ==
    IF evs = <<>> THEN <<>>
    ELSE IF Head(evs).from_ \in { ORCHESTRATOR, PROFESSIONAL_INFO }
         THEN << Head(evs).output >> \o StructuredPayloads(Tail(evs))
         ELSE StructuredPayloads(Tail(evs))

C28_FailureLeavesTurnsInPlace ==
    failure # "none" =>
        LET base == Len(conv_at_start)
            payloads == StructuredPayloads(events)
        IN  /\ Len(conversation) = base + 1 + Len(payloads)
            /\ SubSeq(conversation, 1, base) = conv_at_start
            /\ conversation[base + 1] = Turn("user", prompt)
            /\ \A n \in 1..Len(payloads) :
                  conversation[base + 1 + n] = Turn("assistant", payloads[n])

C28_Witness ==
    /\ failure = FINAL_PRESENTATION
    /\ Len(EventsFrom(PROFESSIONAL_INFO)) = 2
    /\ fragments = << <<"a">> >>
    /\ final_response = <<"a">>
    /\ Len(conversation) = Len(conv_at_start) + 4

(***************************************************************************)
(* C29.  While an accepted query is being processed the input box is       *)
(* non-interactive and no update sent so far re-enables it; once the       *)
(* handler has ended, with an answer or with an agent failure, its last    *)
(* update has made the input box interactive again.  A handler that has    *)
(* ended sends no further update, so a query that ends without that update *)
(* never produces it.                                                      *)
(***************************************************************************)
C29_InputReenabledOnEveryOutcome ==
    /\ outcome = "running" =>
          /\ ~textbox
          /\ updates[1].textbox = "locked"
          /\ \A k \in 1..Len(updates) : updates[k].textbox # "interactive"
    /\ outcome \in { "answered", "error" } =>
          /\ pc = "idle"
          /\ textbox
          /\ updates[Len(updates)].textbox = "interactive"

(***************************************************************************)
(* C30.  The presentation agent consumes nothing after the completion      *)
(* event: a completion event is always the last event it has taken from    *)
(* the stream, and after it the agent is no longer reading, so deltas the  *)
(* service would deliver later yield nothing.  Of the events it has taken, *)
(* each text delta yields one fragment and every other event none.         *)
(***************************************************************************)
C30_NoFragmentAfterCompletion ==
    /\ \A k \in 1..Len(streamed) :
          streamed[k].type = COMPLETED =>
              /\ k = Len(streamed)
              /\ pc # "presenting"
              /\ stream_end = "completed"
    /\ Len(fragments) =
          Cardinality({ k \in 1..Len(streamed) : streamed[k].type = DELTA })
    /\ fragments = TextDeltas(streamed)

C30_Witness ==
    /\ stream_end = "completed"
    /\ Len(streamed) = 3
    /\ streamed[1].type = DELTA
    /\ streamed[2].type = REFUSAL_DELTA
    /\ streamed[3].type = COMPLETED
    /\ fragments = << streamed[1].delta >>
    /\ pc = "idle"

=============================================================================
